---- MODULE Spec2Model ----
(***************************************************************************)
(* Model of object_placement.py (HIVE / InstructPix2Pix batch generation). *)
(*                                                                         *)
(* Two state machines over one set of variables:                           *)
(*   SpecCFG  one call of CFGDenoiser.forward on inputs drawn from small   *)
(*            sets, the inner model returning arbitrary values;            *)
(*   Spec     a run of main(): set-up, image preprocessing, then the loop  *)
(*            over the rows of the job table.                              *)
(*                                                                         *)
(* Tensors are sequences over their batch dimension, one scalar per batch  *)
(* element (every operation of the program on them is elementwise or acts  *)
(* on the batch dimension).  Scalars are floating-point numbers of a small *)
(* format: integers, exact up to Precise, spaced 2 apart up to MaxFinite,  *)
(* overflowing to +inf/-inf, with NaN.                                     *)
(***************************************************************************)
EXTENDS Integers, Sequences, FiniteSets, TLC

\* ------------------------------------------------------------------------
\* Bounds of the model
\* ------------------------------------------------------------------------
\* largest magnitude at which every integer is a float of the format
Precise == 16
\* bound on the finite floats of the format
MaxFinite == 64
\* longest job table
MaxRows == 3
\* sampler steps of a run (args.steps; the program's default is 100)
Steps == 2

\* ------------------------------------------------------------------------
\* Floating point
\* ------------------------------------------------------------------------
PosInf == MaxFinite + 1
NegInf == 0 - (MaxFinite + 1)
NaN == MaxFinite + 2

IsNaN(x) == x = NaN
IsInf(x) == x = PosInf \/ x = NegInf
IsFinite(x) == ~IsNaN(x) /\ ~IsInf(x)

Abs(n) == IF n < 0 THEN 0 - n ELSE n
Sign(n) == IF n < 0 THEN 0 - 1 ELSE IF n > 0 THEN 1 ELSE 0

\* the float nearest to the real (here: integer) result n, ties to even
Round(n) ==
    LET m == Abs(n)
        r == IF m <= Precise THEN m
             ELSE IF m % 2 = 0 THEN m
             ELSE IF (m + 1) % 4 = 0 THEN m + 1 ELSE m - 1
    IN  IF r > MaxFinite THEN (IF n < 0 THEN NegInf ELSE PosInf)
        ELSE Sign(n) * r

Representable(n) == Abs(n) <= MaxFinite /\ Round(n) = n

\* the largest finite float
LargestFinite ==
    CHOOSE n \in 0..MaxFinite :
        Representable(n) /\ \A m \in 0..MaxFinite : Representable(m) => m <= n

FNeg(a) ==
    IF IsNaN(a) THEN NaN
    ELSE IF a = PosInf THEN NegInf
    ELSE IF a = NegInf THEN PosInf
    ELSE 0 - a

FAdd(a, b) ==
    IF IsNaN(a) \/ IsNaN(b) THEN NaN
    ELSE IF IsInf(a) /\ IsInf(b) THEN (IF a = b THEN a ELSE NaN)
    ELSE IF IsInf(a) THEN a
    ELSE IF IsInf(b) THEN b
    ELSE Round(a + b)

FSub(a, b) == FAdd(a, FNeg(b))

FMul(a, b) ==
    IF IsNaN(a) \/ IsNaN(b) THEN NaN
    ELSE IF IsInf(a) \/ IsInf(b)
         THEN (IF a = 0 \/ b = 0 THEN NaN
               ELSE IF Sign(a) * Sign(b) > 0 THEN PosInf ELSE NegInf)
    ELSE Round(a * b)

\* ------------------------------------------------------------------------
\* Tensors: sequences over the batch dimension
\* ------------------------------------------------------------------------
TAdd(x, y) == [n \in DOMAIN x |-> FAdd(x[n], y[n])]
TSub(x, y) == [n \in DOMAIN x |-> FSub(x[n], y[n])]
\* scalar * tensor
TScale(s, x) == [n \in DOMAIN x |-> FMul(s, x[n])]
\* einops.repeat(t, "1 ... -> n ...", n=3)
Repeat3(t) == <<t[1], t[1], t[1]>>
\* torch.cat([a, b, c]) along the batch dimension
Cat3(a, b, c) == a \o b \o c
\* tensor.chunk(3) of a batch of three
Chunk3(t) == <<SubSeq(t, 1, 1), SubSeq(t, 2, 2), SubSeq(t, 3, 3)>>
\* torch.zeros_like
ZerosLike(t) == [n \in DOMAIN t |-> 0]

\* ------------------------------------------------------------------------
\* CFGDenoiser.forward
\* ------------------------------------------------------------------------
\* fault: the text of branch B and the image of branch B taken from the wrong
\* bundle
CfgCond_swapped(cond, uncond) ==
    [c_crossattn |-> <<Cat3(cond["c_crossattn"][1],
                            cond["c_crossattn"][1],
                            uncond["c_crossattn"][1])>>,
     c_concat    |-> <<Cat3(cond["c_concat"][1],
                            uncond["c_concat"][1],
                            uncond["c_concat"][1])>>]

\* the conditioning batch handed to the inner model
CfgCond(cond, uncond) ==
    [c_crossattn |-> <<Cat3(cond["c_crossattn"][1],
                            uncond["c_crossattn"][1],
                            uncond["c_crossattn"][1])>>,
     c_concat    |-> <<Cat3(cond["c_concat"][1],
                            cond["c_concat"][1],
                            uncond["c_concat"][1])>>]

\* the arguments of the one inner-model evaluation of a forward call
InnerArgs(z, sigma, cond, uncond) ==
    [cfg_z     |-> Repeat3(z),
     cfg_sigma |-> Repeat3(sigma),
     cond      |-> CfgCond(cond, uncond)]

\* fault: the sum starts from out_cond
Combine_fromCond(out_cond, out_img_cond, out_uncond, text_cfg_scale, image_cfg_scale) ==
    TAdd(TAdd(out_cond,
              TScale(text_cfg_scale, TSub(out_cond, out_img_cond))),
         TScale(image_cfg_scale, TSub(out_img_cond, out_uncond)))

\* fault: the image term is not weighted
Combine_unscaledImage(out_cond, out_img_cond, out_uncond, text_cfg_scale, image_cfg_scale) ==
    TAdd(TAdd(out_uncond,
              TScale(text_cfg_scale, TSub(out_cond, out_img_cond))),
         TSub(out_img_cond, out_uncond))

\* the return expression
Combine(out_cond, out_img_cond, out_uncond, text_cfg_scale, image_cfg_scale) ==
    TAdd(TAdd(out_uncond,
              TScale(text_cfg_scale, TSub(out_cond, out_img_cond))),
         TScale(image_cfg_scale, TSub(out_img_cond, out_uncond)))

\* forward; inner_model is the wrapped network, a function of the arguments
\* (cfg_z, cfg_sigma, cond) it is called with
forward(z, sigma, cond, uncond, text_cfg_scale, image_cfg_scale, inner_model) ==
    LET chunks == Chunk3(inner_model[InnerArgs(z, sigma, cond, uncond)])
    IN  Combine(chunks[1], chunks[2], chunks[3], text_cfg_scale, image_cfg_scale)

\* ------------------------------------------------------------------------
\* State
\* ------------------------------------------------------------------------
VARIABLES
    \* --- one forward call under test (SpecCFG) ---
    fphase,     \* "idle", "called" (forward returned), "scaled" (second call returned)
    fin,        \* the arguments of the call
    fnet,       \* what the inner model returned: a batch of three
    fout,       \* out_cond, out_img_cond, out_uncond and the returned result
    innerLog,   \* the arguments of every inner-model evaluation so far
    fk,         \* the constant the scales of the second call are multiplied by
    fscaled,    \* the result of the second call
    \* --- a run of main() (Spec): inputs ---
    args,       \* the parsed command line: seed, cfg_text, cfg_image, steps, resolution
    data,       \* the job table: a sequence of rows
    openable,   \* the image paths Image.open succeeds on
    ckpt,       \* the loaded checkpoint (which network the model is)
    \* --- a run of main(): program state ---
    pc,         \* position in main
    seed,       \* the run seed
    null_token, \* embedding of the empty string
    bg_images,  \* the preprocessed background images
    i,          \* number of rows the loop has taken from zip(...)
    cond,       \* the positive bundle (one dict, created before the loop)
    uncond,     \* the null bundle
    sigmas,     \* the noise schedule
    rng,        \* state of the global torch generator
    z,          \* the latent
    step,       \* sampler steps done for the current job
    edited_image, \* the image about to be saved
    files,      \* the output directory: path -> content
    \* --- a run of main(): history ---
    calls,      \* every guided-denoiser call: its job, step and arguments
    events,     \* job starts, network evaluations and file writes, in order
    noiseDraws, \* generator state at each job's initial noise draw
    writes,     \* every completed save: job, path, image
    failedJob,  \* the job an exception was raised in (0: none, or before the loop)
    failedStage \* the position the exception was raised at ("": none)

cfgVars == <<fphase, fin, fnet, fout, innerLog, fk, fscaled>>

inputVars == <<args, data, openable, ckpt>>

progVars == <<pc, seed, null_token, bg_images, i, cond, uncond, sigmas, rng, z,
              step, edited_image, files>>

histVars == <<calls, events, noiseDraws, writes, failedJob, failedStage>>

mainVars == <<inputVars, progVars, histVars>>

vars == <<cfgVars, mainVars>>

\* ------------------------------------------------------------------------
\* SpecCFG: CFGDenoiser.forward on drawn inputs
\* ------------------------------------------------------------------------
\* values the inner model may produce for one batch element
FloatInputs == {0 - 1, 0, 1, Precise, LargestFinite, PosInf, NaN}
\* guidance weights (any real is accepted, negative ones included)
ScaleInputs == {0 - 1, 0, 1, 2}
\* constants the two weights are multiplied by
KInputs == {0 - 1, 0, 2, 3}
LatentInputs == {<<0>>, <<1>>}
SigmaInputs == {<<2>>}
\* (positive bundle, null bundle) pairs
BundleInputs ==
    {[cond   |-> [c_crossattn |-> <<(<<1>>)>>, c_concat |-> <<(<<3>>)>>],
      uncond |-> [c_crossattn |-> <<(<<0>>)>>, c_concat |-> <<(<<0>>)>>]],
     [cond   |-> [c_crossattn |-> <<(<<2>>)>>, c_concat |-> <<(<<0 - 1>>)>>],
      uncond |-> [c_crossattn |-> <<(<<4>>)>>, c_concat |-> <<(<<0>>)>>]]}

NoCall == [z |-> <<0>>, sigma |-> <<0>>, cond |-> <<>>, uncond |-> <<>>,
           text_cfg_scale |-> 0, image_cfg_scale |-> 0]
NoOut == [out_cond |-> <<0>>, out_img_cond |-> <<0>>, out_uncond |-> <<0>>,
          result |-> <<0>>]

InitCFGVars ==
    /\ fphase = "idle"
    /\ fin = NoCall
    /\ fnet = <<0, 0, 0>>
    /\ fout = NoOut
    /\ innerLog = <<>>
    /\ fk = 1
    /\ fscaled = <<0>>

\* a call forward(z, sigma, cond, uncond, text_cfg_scale, image_cfg_scale), the
\* inner model returning the batch o
Forward ==
    /\ fphase = "idle"
    /\ \E zi \in LatentInputs, si \in SigmaInputs, b \in BundleInputs,
          ts \in ScaleInputs, is \in ScaleInputs,
          o \in [1..3 -> FloatInputs] :
          LET a      == InnerArgs(zi, si, b.cond, b.uncond)
              model  == [x \in {a} |-> o]
              chunks == Chunk3(model[a])
          IN  /\ fin' = [z |-> zi, sigma |-> si, cond |-> b.cond,
                         uncond |-> b.uncond,
                         text_cfg_scale |-> ts, image_cfg_scale |-> is]
              /\ innerLog' = Append(innerLog, a)
              /\ fnet' = o
              /\ fout' = [out_cond     |-> chunks[1],
                          out_img_cond |-> chunks[2],
                          out_uncond   |-> chunks[3],
                          result       |-> forward(zi, si, b.cond, b.uncond,
                                                   ts, is, model)]
    /\ fphase' = "called"
    /\ UNCHANGED <<fk, fscaled, mainVars>>

\* a second call on the same arguments with both weights multiplied by k, the
\* inner model returning the same three branch outputs
ForwardScaled ==
    /\ fphase = "called"
    /\ \E k \in KInputs :
          LET a     == InnerArgs(fin.z, fin.sigma, fin.cond, fin.uncond)
              model == [x \in {a} |-> fnet]
          IN  /\ fk' = k
              /\ innerLog' = Append(innerLog, a)
              /\ fscaled' = forward(fin.z, fin.sigma, fin.cond, fin.uncond,
                                    FMul(k, fin.text_cfg_scale),
                                    FMul(k, fin.image_cfg_scale), model)
    /\ fphase' = "scaled"
    /\ UNCHANGED <<fin, fnet, fout, mainVars>>

\* ------------------------------------------------------------------------
\* The external collaborators of main(), as deterministic functions
\* ------------------------------------------------------------------------
\* --resolution default
Resolution == 512
\* args.seed when --seed is not given
None == 0 - 1

\* the instruction string
Edit(object_to_add) ==
    "add a " \o object_to_add \o ", image quality is five out of five"

\* model.get_learned_conditioning([text])
TextEmb(text) ==
    <<CASE text = "" -> 0
        [] text = Edit("cat") -> 1
        [] text = Edit("dog") -> 2
        [] OTHER -> 3>>

\* the pixel data of the image file at a path
Pixels(path) == IF path = "bg1.jpg" THEN 255 ELSE 0

\* fault: a path that cannot be opened goes unnoticed
CanOpen_always(path, readable) == TRUE

\* Image.open(path) succeeds
CanOpen(path, readable) == path \in readable

\* Image.open(path).convert("RGB").resize((resolution, resolution))
Preprocess(path, resolution) ==
    [pixels |-> Pixels(path), size |-> <<resolution, resolution>>]

\* 2 * tensor(image) / 255 - 1, batch dimension added
ToTensor(image) == <<(2 * image.pixels) \div 255 - 1>>

\* model.encode_first_stage(x).mode()
Encode(ck, x) == [n \in DOMAIN x |-> FMul(ck, x[n])]

\* the network on one batch element
Net(ck, zv, sv, text, image) ==
    FSub(zv, FMul(sv, FAdd(text, FMul(ck, image))))

\* K.external.CompVisDenoiser(model) on a batch
inner_model(ck, a) ==
    [n \in DOMAIN a.cfg_z |->
        Net(ck, a.cfg_z[n], a.cfg_sigma[n],
            a.cond.c_crossattn[1][n], a.cond.c_concat[1][n])]

\* model_wrap.get_sigmas(n): n + 1 decreasing values, the last one 0
Sigmas(n) == [j \in 1..(n + 1) |-> n + 1 - j]

\* the global generator: torch.manual_seed, one draw, the state after a draw
SeedState(s) == s % 16
NextRng(r) == (5 * r + 3) % 16
Randn(r) == (r % 3) - 1

\* fault: the generator is not reseeded
ManualSeed_missing(r, s) == r

\* torch.manual_seed(seed): the generator state afterwards
ManualSeed(r, s) == SeedState(s)

\* torch.randn_like(t) drawn at generator state r
RandnLike(t, r) == [n \in DOMAIN t |-> Randn(r)]

\* one step of K.sampling.sample_euler_ancestral after the denoiser call
SamplerStep(denoised, sigma_next, noise) ==
    TAdd(denoised, TScale(sigma_next, noise))

\* model.decode_first_stage(z): an image of three pixels
Decode(ck, zz) == <<FSub(zz[1], 1), zz[1], FAdd(zz[1], 1)>>

\* clamp((x + 1) / 2, 0, 1) * 255 as uint8, for one pixel
ToUint8(v) ==
    IF IsNaN(v) THEN 0
    ELSE IF v = NegInf \/ v <= 0 - 1 THEN 0
    ELSE IF v >= 1 THEN 255
    ELSE 127

PostProcess(x) == [n \in DOMAIN x |-> ToUint8(x[n])]

\* fault: the suffix is left out
OutPath_noSuffix(filename) == filename

\* os.path.join(args.output_dir, f"{filename}.png"), relative to output_dir
OutPath(filename) == filename \o ".png"

\* what a file opened for writing holds when the write of content is cut short
PartialWrites(content) == {SubSeq(content, 1, n) : n \in 0..(Len(content) - 1)}

WriteFile(dir, path, content) == (path :> content) @@ dir

\* ------------------------------------------------------------------------
\* main()
\* ------------------------------------------------------------------------
\* rows a job table is made of
RowPool ==
    {[bg_image_path |-> "bg1.jpg", object_to_add |-> "cat", filename |-> "out_a"],
     [bg_image_path |-> "bg2.jpg", object_to_add |-> "dog", filename |-> "out_b"],
     [bg_image_path |-> "bg2.jpg", object_to_add |-> "cat", filename |-> "out_a"]}
Paths == {r.bg_image_path : r \in RowPool}
Tables == UNION {[1..n -> RowPool] : n \in 0..MaxRows}
SeedArgs == {None, 5}
RandomSeeds == {3, 7}
ScaleArgs == {<<2, 1>>, <<0 - 1, 2>>}
Checkpoints == {1, 2}
EntropyStates == {0, 9}

Min(a, b) == IF a < b THEN a ELSE b

\* fault: --seed is ignored
SeedChoice_alwaysRandom(a) == RandomSeeds

\* seed = random.randint(0, 100000) if args.seed is None else args.seed
SeedChoice(a) == IF a.seed = None THEN RandomSeeds ELSE {a.seed}

\* fault: the entry is set only when the dict has none (setdefault)
SetCrossattn_ifAbsent(c, emb) == c @@ ("c_crossattn" :> <<emb>>)

\* cond["c_crossattn"] = [emb]
SetCrossattn(c, emb) == ("c_crossattn" :> <<emb>>) @@ c

\* cond["c_concat"] = [latent]
SetConcat(c, latent) == ("c_concat" :> <<latent>>) @@ c

\* fault: the save is not part of the loop body
NextPc_noSave(p) ==
    CASE p = "cond_text" -> "cond_image"
      [] p = "cond_image" -> "uncond"
      [] p = "uncond" -> "noise"
      [] p = "noise" -> "sample"
      [] p = "sample" -> "decode"
      [] p = "decode" -> "next"
      [] p = "save" -> "next"

\* the statement after position p of the loop body
NextPc(p) ==
    CASE p = "cond_text" -> "cond_image"
      [] p = "cond_image" -> "uncond"
      [] p = "uncond" -> "noise"
      [] p = "noise" -> "sample"
      [] p = "sample" -> "decode"
      [] p = "decode" -> "save"
      [] p = "save" -> "next"

\* fault: the exception is caught and the loop goes on with the next row
OnRaise_continue(p) == "next"

\* where control goes when a statement at position p raises: nothing in
\* main catches, the exception leaves main
OnRaise(p) == "aborted"

\* the positions of the loop body
BodyStages == {"cond_text", "cond_image", "uncond", "noise", "sample", "decode", "save"}

InitMainVars ==
    /\ pc = "start"
    /\ seed = None
    /\ null_token = <<0>>
    /\ bg_images = <<>>
    /\ i = 0
    /\ cond = <<>>
    /\ uncond = <<>>
    /\ sigmas = <<>>
    /\ z = <<0>>
    /\ step = 0
    /\ edited_image = <<>>
    /\ files = <<>>
    /\ calls = <<>>
    /\ events = <<>>
    /\ noiseDraws = <<>>
    /\ writes = <<>>
    /\ failedJob = 0
    /\ failedStage = ""

\* lines 135-143: arguments, model, null token, seed, job table
Setup ==
    /\ pc = "start"
    /\ seed' \in SeedChoice(args)
    /\ null_token' = TextEmb("")
    /\ pc' = "preprocess"
    /\ UNCHANGED <<cfgVars, inputVars, histVars, bg_images, i, cond, uncond,
                   sigmas, rng, z, step, edited_image, files>>

\* line 144, preprocess_images: the next image of the list comprehension
OpenImage ==
    /\ pc = "preprocess"
    /\ Len(bg_images) < Len(data)
    /\ LET path == data[Len(bg_images) + 1].bg_image_path
       IN  IF CanOpen(path, openable)
           THEN /\ bg_images' = Append(bg_images, Preprocess(path, args.resolution))
                /\ UNCHANGED <<pc, failedStage>>
           ELSE /\ pc' = "aborted"
                /\ failedStage' = "preprocess"
                /\ UNCHANGED bg_images
    /\ UNCHANGED <<cfgVars, inputVars, seed, null_token, i, cond, uncond, sigmas,
                   rng, z, step, edited_image, files, calls, events, noiseDraws,
                   writes, failedJob>>

\* lines 145-148: all images are preprocessed; cond = {}
EnterLoop ==
    /\ pc = "preprocess"
    /\ Len(bg_images) = Len(data)
    /\ cond' = <<>>
    /\ pc' = "next"
    /\ UNCHANGED <<cfgVars, inputVars, histVars, seed, null_token, bg_images, i,
                   uncond, sigmas, rng, z, step, edited_image, files>>

\* lines 149-155: zip(...) yields the next row
TakeRow ==
    /\ pc = "next"
    /\ i < Min(Len(bg_images), Len(data))
    /\ i' = i + 1
    /\ events' = Append(events, [kind |-> "start", job |-> i + 1])
    /\ pc' = "cond_text"
    /\ UNCHANGED <<cfgVars, inputVars, seed, null_token, bg_images, cond, uncond,
                   sigmas, rng, z, step, edited_image, files, calls, noiseDraws,
                   writes, failedJob, failedStage>>

\* lines 149-155: zip(...) is exhausted, main returns
Finish ==
    /\ pc = "next"
    /\ i >= Min(Len(bg_images), Len(data))
    /\ pc' = "done"
    /\ UNCHANGED <<cfgVars, inputVars, histVars, seed, null_token, bg_images, i,
                   cond, uncond, sigmas, rng, z, step, edited_image, files>>

\* lines 156-157
CondText ==
    /\ pc = "cond_text"
    /\ cond' = SetCrossattn(cond, TextEmb(Edit(data[i].object_to_add)))
    /\ pc' = NextPc(pc)
    /\ UNCHANGED <<cfgVars, inputVars, histVars, seed, null_token, bg_images, i,
                   uncond, sigmas, rng, z, step, edited_image, files>>

\* lines 158-160
CondImage ==
    /\ pc = "cond_image"
    /\ cond' = SetConcat(cond, Encode(ckpt, ToTensor(bg_images[i])))
    /\ pc' = NextPc(pc)
    /\ UNCHANGED <<cfgVars, inputVars, histVars, seed, null_token, bg_images, i,
                   uncond, sigmas, rng, z, step, edited_image, files>>

\* lines 162-173: the null bundle, the schedule, extra_args
BuildUncond ==
    /\ pc = "uncond"
    /\ uncond' = [c_crossattn |-> <<null_token>>,
                  c_concat    |-> <<ZerosLike(cond["c_concat"][1])>>]
    /\ sigmas' = Sigmas(args.steps)
    /\ pc' = NextPc(pc)
    /\ UNCHANGED <<cfgVars, inputVars, histVars, seed, null_token, bg_images, i,
                   cond, rng, z, step, edited_image, files>>

\* lines 174-175: reseed, draw the initial noise
DrawNoise ==
    /\ pc = "noise"
    /\ LET r == ManualSeed(rng, seed)
       IN  /\ noiseDraws' = Append(noiseDraws, [job |-> i, rng |-> r])
           /\ z' = TScale(sigmas[1], RandnLike(cond["c_concat"][1], r))
           /\ rng' = NextRng(r)
    /\ step' = 0
    /\ pc' = NextPc(pc)
    /\ UNCHANGED <<cfgVars, inputVars, seed, null_token, bg_images, i, cond,
                   uncond, sigmas, edited_image, files, calls, events, writes,
                   failedJob, failedStage>>

\* lines 176-178: one step of the sampler; extra_args refers to the dicts
\* cond and uncond themselves
SampleStep ==
    /\ pc = "sample"
    /\ step < Len(sigmas) - 1
    /\ LET sigma    == <<sigmas[step + 1]>>
           a        == InnerArgs(z, sigma, cond, uncond)
           model    == [x \in {a} |-> inner_model(ckpt, x)]
           denoised == forward(z, sigma, cond, uncond,
                               args.cfg_text, args.cfg_image, model)
       IN  /\ calls' = Append(calls,
                  [job |-> i, step |-> step + 1, z |-> z, sigma |-> sigma,
                   cond |-> cond, uncond |-> uncond,
                   text_cfg_scale |-> args.cfg_text,
                   image_cfg_scale |-> args.cfg_image])
           /\ z' = SamplerStep(denoised, sigmas[step + 2], RandnLike(z, rng))
    /\ events' = Append(events, [kind |-> "eval", job |-> i])
    /\ rng' = NextRng(rng)
    /\ step' = step + 1
    /\ UNCHANGED <<cfgVars, inputVars, pc, seed, null_token, bg_images, i, cond,
                   uncond, sigmas, edited_image, files, noiseDraws, writes,
                   failedJob, failedStage>>

\* lines 176-178: the sampler returns
SampleDone ==
    /\ pc = "sample"
    /\ step = Len(sigmas) - 1
    /\ pc' = NextPc(pc)
    /\ UNCHANGED <<cfgVars, inputVars, histVars, seed, null_token, bg_images, i,
                   cond, uncond, sigmas, rng, z, step, edited_image, files>>

\* lines 179-182
DecodeImage ==
    /\ pc = "decode"
    /\ edited_image' = PostProcess(Decode(ckpt, z))
    /\ pc' = NextPc(pc)
    /\ UNCHANGED <<cfgVars, inputVars, histVars, seed, null_token, bg_images, i,
                   cond, uncond, sigmas, rng, z, step, files>>

\* line 183
Save ==
    /\ pc = "save"
    /\ LET path == OutPath(data[i].filename)
       IN  /\ files' = WriteFile(files, path, edited_image)
           /\ writes' = Append(writes, [job |-> i, path |-> path,
                                        image |-> edited_image])
    /\ events' = Append(events, [kind |-> "write", job |-> i])
    /\ pc' = NextPc(pc)
    /\ UNCHANGED <<cfgVars, inputVars, seed, null_token, bg_images, i, cond,
                   uncond, sigmas, rng, z, step, edited_image, calls, noiseDraws,
                   failedJob, failedStage>>

\* a statement of the loop body raises (a network call, the sampler, the
\* decoder, the allocator)
Raise ==
    /\ pc \in BodyStages
    /\ failedJob' = i
    /\ failedStage' = pc
    /\ pc' = OnRaise(pc)
    /\ UNCHANGED <<cfgVars, inputVars, seed, null_token, bg_images, i, cond,
                   uncond, sigmas, rng, z, step, edited_image, files, calls,
                   events, noiseDraws, writes>>

\* line 183 raises after Image.save has opened the target for writing: the
\* file holds what had been written of the image by then
RaiseInSave ==
    /\ pc = "save"
    /\ failedJob' = i
    /\ failedStage' = pc
    /\ \E part \in PartialWrites(edited_image) :
          files' = WriteFile(files, OutPath(data[i].filename), part)
    /\ pc' = OnRaise(pc)
    /\ UNCHANGED <<cfgVars, inputVars, seed, null_token, bg_images, i, cond,
                   uncond, sigmas, rng, z, step, edited_image, calls, events,
                   noiseDraws, writes>>

\* the main() variables while only forward is exercised
IdleMainVars ==
    /\ InitMainVars
    /\ args = [seed |-> None, cfg_text |-> 0, cfg_image |-> 0, steps |-> 0,
               resolution |-> Resolution]
    /\ data = <<>>
    /\ openable = {}
    /\ ckpt = 1
    /\ rng = 0

InitCFG == InitCFGVars /\ IdleMainVars

NextCFG ==
    \/ Forward
    \/ ForwardScaled

SpecCFG == InitCFG /\ [][NextCFG]_vars

Init ==
    /\ InitCFGVars
    /\ InitMainVars
    /\ \E sd \in SeedArgs, sc \in ScaleArgs :
          args = [seed |-> sd, cfg_text |-> sc[1], cfg_image |-> sc[2],
                  steps |-> Steps, resolution |-> Resolution]
    /\ data \in Tables
    /\ openable \in SUBSET Paths
    /\ ckpt \in Checkpoints
    /\ rng \in EntropyStates

Next ==
    \/ Setup
    \/ OpenImage
    \/ EnterLoop
    \/ TakeRow
    \/ Finish
    \/ CondText
    \/ CondImage
    \/ BuildUncond
    \/ DrawNoise
    \/ SampleStep
    \/ SampleDone
    \/ DecodeImage
    \/ Save
    \/ Raise
    \/ RaiseInSave

Spec == Init /\ [][Next]_vars

\* ------------------------------------------------------------------------
\* Properties of CFGDenoiser.forward (checked under SpecCFG)
\* ------------------------------------------------------------------------
ZeroScales == fin.text_cfg_scale = 0 /\ fin.image_cfg_scale = 0

\* both differences of the return expression are finite numbers
DifferencesFinite ==
    /\ IsFinite(FSub(fout.out_cond[1], fout.out_img_cond[1]))
    /\ IsFinite(FSub(fout.out_img_cond[1], fout.out_uncond[1]))

\* C1 as stated: with text_cfg_scale = image_cfg_scale = 0 forward returns
\* exactly out_uncond, whatever the inner model produced for the other two
\* branches.
C1_ZeroScalesReturnUncond ==
    (fphase = "called" /\ ZeroScales) => fout.result = fout.out_uncond

\* C1 amended: with text_cfg_scale = image_cfg_scale = 0 forward returns
\* exactly out_uncond whenever the two differences out_cond - out_img_cond
\* and out_img_cond - out_uncond are finite (an infinite or NaN difference
\* times 0 is NaN, and the sum is then NaN).
C1_ZeroScalesReturnUncondFinite ==
    (fphase = "called" /\ ZeroScales /\ DifferencesFinite)
        => fout.result = fout.out_uncond

C1_Witness ==
    /\ fphase = "called"
    /\ ZeroScales
    /\ DifferencesFinite
    /\ fout.out_cond # fout.out_uncond
    /\ fout.out_img_cond # fout.out_uncond
    /\ fout.result = fout.out_uncond

\* the deviation of a result from out_uncond
Deviation(result) == TSub(result, fout.out_uncond)

\* Every value the two calls and the comparison compute is, in exact
\* arithmetic, a finite number the format represents: nothing overflows and
\* nothing is rounded.
ExactCase ==
    LET a   == fout.out_cond[1]
        b   == fout.out_img_cond[1]
        u   == fout.out_uncond[1]
        ts  == fin.text_cfg_scale
        is  == fin.image_cfg_scale
        dev == ts * (a - b) + is * (b - u)
    IN  /\ IsFinite(a) /\ IsFinite(b) /\ IsFinite(u)
        /\ \A n \in {a - b, b - u, ts * (a - b), is * (b - u),
                     u + ts * (a - b), u + dev, dev,
                     fk * ts, fk * is, fk * ts * (a - b), fk * is * (b - u),
                     u + fk * ts * (a - b), u + fk * dev, fk * dev} :
              Representable(n)

\* C4 as stated: with the three branch outputs held fixed, multiplying both
\* scales by k multiplies the deviation of the result from out_uncond by
\* exactly k, for every k.
C4_DeviationScalesByK ==
    fphase = "scaled" => Deviation(fscaled) = TScale(fk, Deviation(fout.result))

\* C4 amended: the deviation is multiplied by exactly k whenever every
\* intermediate value of the two evaluations is finite and exactly
\* representable (no overflow to inf, no NaN, no rounding).
C4_DeviationScalesByKExact ==
    (fphase = "scaled" /\ ExactCase)
        => Deviation(fscaled) = TScale(fk, Deviation(fout.result))

C4_Witness ==
    /\ fphase = "scaled"
    /\ ExactCase
    /\ fk = 0 - 1
    /\ fin.text_cfg_scale # 0
    /\ fin.image_cfg_scale # 0
    /\ Deviation(fout.result)[1] # 0
    /\ Deviation(fscaled)[1] = 0 - Deviation(fout.result)[1]

\* element n of the batch an inner-model evaluation received
BatchElement(a, n) ==
    [z     |-> a.cfg_z[n],
     sigma |-> a.cfg_sigma[n],
     text  |-> a.cond.c_crossattn[1][n],
     image |-> a.cond.c_concat[1][n]]

\* C6: every forward call evaluates the inner model exactly once, on a batch
\* of three: (positive text, positive image), (null text, positive image),
\* (null text, null image), the latent and sigma replicated three times; the
\* three chunks of the result are out_cond, out_img_cond, out_uncond in order.
C6_OneEvaluationOfThreeBranches ==
    LET ncalls == IF fphase = "idle" THEN 0 ELSE IF fphase = "called" THEN 1 ELSE 2
        elem(text, image) == [z |-> fin.z[1], sigma |-> fin.sigma[1],
                              text |-> text, image |-> image]
    IN  /\ Len(innerLog) = ncalls
        /\ \A c \in 1..Len(innerLog) :
              /\ Len(innerLog[c].cfg_z) = 3
              /\ Len(innerLog[c].cfg_sigma) = 3
              /\ Len(innerLog[c].cond.c_crossattn[1]) = 3
              /\ Len(innerLog[c].cond.c_concat[1]) = 3
              /\ BatchElement(innerLog[c], 1)
                    = elem(fin.cond.c_crossattn[1][1], fin.cond.c_concat[1][1])
              /\ BatchElement(innerLog[c], 2)
                    = elem(fin.uncond.c_crossattn[1][1], fin.cond.c_concat[1][1])
              /\ BatchElement(innerLog[c], 3)
                    = elem(fin.uncond.c_crossattn[1][1], fin.uncond.c_concat[1][1])
        /\ fphase # "idle" =>
              /\ fout.out_cond = <<fnet[1]>>
              /\ fout.out_img_cond = <<fnet[2]>>
              /\ fout.out_uncond = <<fnet[3]>>

C6_Witness ==
    /\ fphase = "scaled"
    /\ Len(innerLog) = 2
    /\ Cardinality({fin.cond.c_crossattn[1][1], fin.uncond.c_crossattn[1][1]}) = 2
    /\ Cardinality({fin.cond.c_concat[1][1], fin.uncond.c_concat[1][1]}) = 2
    /\ Cardinality({fnet[1], fnet[2], fnet[3]}) = 3

\* ------------------------------------------------------------------------
\* Properties of main() (checked under Spec)
\* ------------------------------------------------------------------------
Rows == 1..Len(data)
\* the output file names the table asks for
WantedNames == {data[n].filename \o ".png" : n \in Rows}
DistinctFilenames ==
    \A m, n \in Rows : data[m].filename = data[n].filename => m = n
\* the last row of the table that names output file path
LastRowOf(path) ==
    CHOOSE n \in Rows :
        /\ data[n].filename \o ".png" = path
        /\ \A m \in Rows : data[m].filename \o ".png" = path => m <= n

\* C2 as stated: a run that completes over a table of N rows creates exactly
\* N output files, each named <filename>.png, also when rows repeat a
\* filename.
C2_OneFilePerRow ==
    pc = "done" =>
        /\ DOMAIN files = WantedNames
        /\ Cardinality(DOMAIN files) = Len(data)

\* C2 amended: a run that completes leaves exactly one output file per
\* distinct filename of the table, named <filename>.png; these are N files
\* when no two rows share a filename, and fewer otherwise (a later row
\* overwrites the file of an earlier row of the same filename).
C2_OneFilePerDistinctFilename ==
    pc = "done" =>
        /\ DOMAIN files = WantedNames
        /\ Cardinality(DOMAIN files) = Cardinality({data[n].filename : n \in Rows})
        /\ DistinctFilenames => Cardinality(DOMAIN files) = Len(data)
        /\ Len(writes) = Len(data)

C2_Witness ==
    /\ pc = "done"
    /\ Len(data) = 2
    /\ DistinctFilenames
    /\ Cardinality(DOMAIN files) = 2

\* what one job computes from the run seed sd, its row, the arguments and
\* the checkpoint alone
PositiveBundle(row) ==
    [c_crossattn |-> <<TextEmb("add a " \o row.object_to_add
                               \o ", image quality is five out of five")>>,
     c_concat    |-> <<Encode(ckpt, ToTensor(Preprocess(row.bg_image_path,
                                                        args.resolution)))>>]
NullBundle(row) ==
    [c_crossattn |-> <<TextEmb("")>>,
     c_concat    |-> <<ZerosLike(PositiveBundle(row).c_concat[1])>>]

RECURSIVE SampleFrom(_, _, _, _)
SampleFrom(row, zz, r, s) ==
    IF s > args.steps THEN zz
    ELSE LET sg       == Sigmas(args.steps)
             sigma    == <<sg[s]>>
             a        == InnerArgs(zz, sigma, PositiveBundle(row), NullBundle(row))
             model    == [x \in {a} |-> inner_model(ckpt, x)]
             denoised == forward(zz, sigma, PositiveBundle(row), NullBundle(row),
                                 args.cfg_text, args.cfg_image, model)
         IN  SampleFrom(row, SamplerStep(denoised, sg[s + 1], RandnLike(zz, r)),
                        NextRng(r), s + 1)

ExpectedNoise(sd, row) ==
    TScale(Sigmas(args.steps)[1],
           RandnLike(PositiveBundle(row).c_concat[1], SeedState(sd)))
ExpectedLatent(sd, row) ==
    SampleFrom(row, ExpectedNoise(sd, row), NextRng(SeedState(sd)), 1)
ExpectedImage(sd, row) == PostProcess(Decode(ckpt, ExpectedLatent(sd, row)))

\* C3: for a fixed seed (--seed given), the final content of every output
\* file of a completed run is a function of the seed, the row (the last one
\* naming the file) and the arguments and checkpoint only: it does not depend
\* on the generator's state at start-up nor on anything else of the run, so
\* two runs over the same table agree on every file.
C3_OutputsDeterminedBySeed ==
    (pc = "done" /\ args.seed # None) =>
        /\ seed = args.seed
        /\ \A path \in DOMAIN files :
              files[path] = ExpectedImage(args.seed, data[LastRowOf(path)])
        /\ \A n \in 1..Len(writes) :
              writes[n].image = ExpectedImage(args.seed, data[writes[n].job])

C3_Witness ==
    /\ pc = "done"
    /\ args.seed # None
    /\ Len(data) = 2
    /\ Cardinality(DOMAIN files) = 2
    /\ Cardinality({files[path] : path \in DOMAIN files}) = 2

\* the files the completed saves of the run produce, in order
RECURSIVE Replay(_)
Replay(ws) ==
    IF ws = <<>> THEN <<>>
    ELSE WriteFile(Replay(SubSeq(ws, 1, Len(ws) - 1)),
                   ws[Len(ws)].path, ws[Len(ws)].image)
StartsOf(job) == {n \in 1..Len(events) : events[n].kind = "start" /\ events[n].job = job}
NoLaterJob == \A n \in 1..Len(events) : events[n].job <= failedJob

\* the output file of the job that raised
FailedPath == data[failedJob].filename \o ".png"

\* C5 as stated: when job i raises at any stage, no file of a later job is
\* ever written, job i is never re-attempted, and the files written for the
\* jobs before i are left as they are.
C5_FailureAbortsBatch ==
    failedJob >= 1 =>
        /\ pc = "aborted"
        /\ NoLaterJob
        /\ Cardinality(StartsOf(failedJob)) = 1
        /\ \A n \in 1..Len(writes) : writes[n].job < failedJob
        /\ DOMAIN files \subseteq DOMAIN Replay(writes) \cup {FailedPath}
        /\ \A path \in DOMAIN Replay(writes) :
              /\ path \in DOMAIN files
              /\ files[path] = Replay(writes)[path]

\* C5 amended: when job i raises at any stage, no file of a later job is
\* ever written and job i is never re-attempted; the files written for the
\* jobs before i are left as they are, except the file job i's own save
\* targets: a save that fails after opening it leaves it partially
\* written, and it is the file of an earlier job when the two rows share a
\* filename.
C5_FailureAbortsBatchButSave ==
    failedJob >= 1 =>
        /\ pc = "aborted"
        /\ NoLaterJob
        /\ Cardinality(StartsOf(failedJob)) = 1
        /\ \A n \in 1..Len(writes) : writes[n].job < failedJob
        /\ DOMAIN files \subseteq DOMAIN Replay(writes) \cup {FailedPath}
        /\ \A path \in DOMAIN Replay(writes) :
              /\ path \in DOMAIN files
              /\ \/ files[path] = Replay(writes)[path]
                 \/ /\ failedStage = "save"
                    /\ path = FailedPath
                    /\ files[path] \in PartialWrites(edited_image)

C5_Witness ==
    /\ failedJob = 2
    /\ failedStage = "sample"
    /\ Len(data) = 3
    /\ pc = "aborted"
    /\ Len(writes) = 1
    /\ files = Replay(writes)

\* C7: the generator is reset to the run seed immediately before every
\* job's initial-noise draw, so the state at that draw is the same in every
\* job, and a job's initial noise and sampled latent are functions of the run
\* seed and its row alone (not of its position in the table, nor of what
\* earlier jobs drew).
C7_ReseededBeforeEveryNoiseDraw ==
    /\ \A n \in 1..Len(noiseDraws) :
          /\ noiseDraws[n].job = n
          /\ noiseDraws[n].rng = SeedState(seed)
    /\ (pc = "sample" /\ step = 0) => z = ExpectedNoise(seed, data[i])
    /\ pc = "decode" => z = ExpectedLatent(seed, data[i])

C7_Witness ==
    /\ pc = "decode"
    /\ i = 2
    /\ Len(noiseDraws) = 2
    /\ rng # SeedState(seed)
    /\ data[1] # data[2]

\* C8: every guided-denoiser call of job i receives the positive bundle of
\* row i, the null bundle (empty-string embedding, zero latent shaped like
\* row i's image latent) and the run's two weights; when sampling of job i
\* starts, both entries of the reused dict cond are those of row i.
C8_CallsReceiveTheJobsBundles ==
    /\ \A n \in 1..Len(calls) :
          /\ calls[n].cond = PositiveBundle(data[calls[n].job])
          /\ calls[n].uncond = NullBundle(data[calls[n].job])
          /\ calls[n].text_cfg_scale = args.cfg_text
          /\ calls[n].image_cfg_scale = args.cfg_image
    /\ pc = "sample" =>
          /\ cond = PositiveBundle(data[i])
          /\ uncond = NullBundle(data[i])

C8_Witness ==
    /\ pc = "sample"
    /\ i = 2
    /\ step = 1
    /\ PositiveBundle(data[1]).c_crossattn # PositiveBundle(data[2]).c_crossattn
    /\ PositiveBundle(data[1]).c_concat # PositiveBundle(data[2]).c_concat
    /\ calls[Len(calls)].job = 2

\* jobs started and not yet saved
InProgress ==
    {j \in 1..i : /\ StartsOf(j) # {}
                  /\ \A n \in 1..Len(events) :
                        ~(events[n].kind = "write" /\ events[n].job = j)}

\* C9: jobs run one at a time in table order: the events of the run are
\* ordered by job, every network evaluation of job j comes after the write
\* of every earlier job's file, and at most one job is in progress.
C9_JobsStrictlySequential ==
    /\ \A m, n \in 1..Len(events) : m < n => events[m].job <= events[n].job
    /\ \A n \in 1..Len(events) :
          events[n].kind = "eval" =>
              \A j \in 1..(events[n].job - 1) :
                  \E m \in 1..(n - 1) :
                      events[m].kind = "write" /\ events[m].job = j
    /\ Cardinality(InProgress) <= 1
    /\ InProgress \subseteq {i}

C9_Witness ==
    /\ Len(data) = 2
    /\ i = 2
    /\ pc = "sample"
    /\ step = 1
    /\ Len(writes) = 1

SomeImageMissing == \E n \in Rows : data[n].bg_image_path \notin openable

\* C10: every background image is opened and resized before the first job
\* starts, so when the image of any row cannot be opened the run ends before
\* any network evaluation and before any output file is written.
C10_MissingImageWritesNothing ==
    /\ i >= 1 =>
          /\ Len(bg_images) = Len(data)
          /\ \A n \in Rows :
                bg_images[n] = [pixels |-> Pixels(data[n].bg_image_path),
                                size |-> <<args.resolution, args.resolution>>]
    /\ SomeImageMissing =>
          /\ files = <<>>
          /\ events = <<>>
          /\ pc \in {"start", "preprocess", "aborted"}

C10_Witness ==
    /\ pc = "aborted"
    /\ failedStage = "preprocess"
    /\ Len(data) = 2
    /\ Len(bg_images) = 1
    /\ files = <<>>

====
